---- MODULE Spec2Model ----
(***************************************************************************)
(* Model of src/src/ftdi_stream.c: the streaming read session of libftdi.   *)
(*                                                                         *)
(* ftdi_stream_read() is one thread of control.  It sets the device up,    *)
(* builds a pool of num_transfers bulk transfers, and then pumps libusb's  *)
(* event loop; libusb calls ftdi_stream_read_cb() for every transfer that  *)
(* completes while the driver is inside libusb_handle_events_timeout().    *)
(*                                                                         *)
(* Time is counted in whole seconds.  uint64_t byte counters hold the      *)
(* two's-complement reading of the 64-bit word (v < 0 stands for the       *)
(* unsigned value 2^64 + v): addition and subtraction act on the word as   *)
(* the machine's do, and the unsigned order and the conversion to double   *)
(* are the operators U64Leq and U64IsZero below.                           *)
(***************************************************************************)
EXTENDS Integers, Sequences, FiniteSets, TLC

\* ------------------------------------------------------------------ bounds
MaxTransfers == 2        \* num_transfers is drawn from 1..MaxTransfers
MaxPackets == 2          \* packets_per_transfer is drawn from 1..MaxPackets
PacketSize == 3          \* ftdi->max_packet_size (header 2 bytes + payload)
MaxCompletions == 2      \* completions the transport delivers in one session
MaxElapsed == 1          \* seconds that pass during one session, at most
StartTime == 3           \* the wall clock (seconds since the epoch) at entry
MaxIterations == 3       \* loop iterations are counted up to this number

\* -------------------------------------------------------- program constants
LIBUSB_TRANSFER_COMPLETED == 0
LIBUSB_TRANSFER_ERROR == 1
LIBUSB_SUCCESS == 0
LIBUSB_ERROR_IO == -1
LIBUSB_ERROR_NO_DEVICE == -4
LIBUSB_ERROR_INTERRUPTED == -10
LIBUSB_ERROR_NO_MEM == -11
HeaderLen == 2
ProgressInterval == 1

SyncFifoTypes == {"TYPE_2232H", "TYPE_232H"}
DeviceTypes == SyncFifoTypes \cup {"TYPE_4232H"}

\* What the collaborators can answer.
TransferStatuses == {LIBUSB_TRANSFER_COMPLETED, LIBUSB_TRANSFER_ERROR}
SubmitResults == {LIBUSB_SUCCESS, LIBUSB_ERROR_NO_DEVICE}
HandleEventsResults == {LIBUSB_SUCCESS, LIBUSB_ERROR_INTERRUPTED, LIBUSB_ERROR_NO_DEVICE}
DeviceCallResults == {0, -1}
ConsumerReturns == {0, 1}

VARIABLES
    num_transfers,         \* argument
    packets_per_transfer,  \* argument
    pc,                    \* position of ftdi_stream_read
    transfers,             \* the array of transfer pointers: uninit, null, alloc, freed
    xfers,                 \* slot -> the libusb_transfer the slot points to and its buffer
    xferIndex,             \* local of ftdi_stream_read
    err,                   \* local of ftdi_stream_read
    xfer_err,              \* local of the driver loop's body (0 outside its scope)
    state,                 \* FTDIStreamState, on the stack of ftdi_stream_read
    clock,                 \* what timespec_get reads
    retval,                \* the value ftdi_stream_read returned (read when pc = "done")
    completions,           \* history: number of invocations of ftdi_stream_read_cb
    cb_xfer,               \* history: the slot the handler last ran for in this wait, or -1
    trace,                 \* history: the handler's last invocation in detail (SpecCb)
    stopped,               \* history: slots whose data the consumer answered nonzero to
    events,                \* history: what happened in the session
    path,                  \* history: the exit the session took
    reports,               \* history: number of progress-report invocations
    rates_computed,        \* history: whether the last report computed the rates
    calls,                 \* history: the steps ftdi_stream_read took before the loop
    iterations,            \* history: loop iterations begun, counted up to MaxIterations
    wait_rcs,              \* history: what the dispatch waits of this iteration returned
    wait_completions,      \* history: handler invocations during this iteration's wait
    idle_waits,            \* history: iterations in a row that ended with no completion
    adopted_rc,            \* history: the dispatch return code taken as the result, or 0
    cb_length,             \* history: actual_length the handler last saw completed, or -1
    cb_calls               \* history: data deliveries of the handler's last invocation

vars == <<num_transfers, packets_per_transfer, pc, transfers, xfers,
          xferIndex, err, xfer_err, state, clock, retval, completions, cb_xfer, trace,
          stopped, events, path, reports, rates_computed, calls, iterations,
          wait_rcs, wait_completions, idle_waits, adopted_rc, cb_length, cb_calls>>

Slots == 0 .. (num_transfers - 1)

\* ----------------------------------------------------------------- helpers

\* uint64_t order and zero test on the two's-complement reading.
U64Leq(a, b) == IF (a < 0) = (b < 0) THEN a <= b ELSE b < 0
U64IsZero(a) == a = 0

\* free() / libusb_free_transfer() applied to an allocation.
Free(a) == IF a = "alloc" THEN "freed" ELSE "invalid_free"

\* line 142: (a - b) in seconds.
timespec_diff(a, b) == a - b

\* line 171.
BufferSize(ppt, packet_size) == ppt * packet_size

\* line 94: the number of packets the handler walks through.
\* An empty transfer is taken for one packet.
NumPacketsAtLeastOne(length, packet_size) ==
    IF length = 0 THEN 1 ELSE (length + packet_size - 1) \div packet_size

NumPacketsFloor(length, packet_size) == length \div packet_size
NumPackets(length, packet_size) == (length + packet_size - 1) \div packet_size

\* lines 100-103: the length of the packet at the head of the remaining bytes.
PacketLen(length, packet_size) == IF length > packet_size THEN packet_size ELSE length

\* lines 97-113: the data deliveries of one completed transfer, in order.  ptr is
\* the offset into transfer->buffer; data is the pointer the consumer is given.
RECURSIVE SplitPackets(_, _, _, _, _)
SplitPackets(i, numPackets, ptr, length, packet_size) ==
    IF i < numPackets
    THEN LET packetLen == PacketLen(length, packet_size)
             payloadLen == packetLen - HeaderLen
         IN  <<[ptr |-> ptr, data |-> ptr + HeaderLen, packetLen |-> packetLen,
                payloadLen |-> payloadLen]>>
             \o SplitPackets(i + 1, numPackets, ptr + packetLen, length - packetLen,
                             packet_size)
    ELSE <<>>

\* lines 93-97: the deliveries of a completed transfer of the given actual_length.
Deliveries(length, packet_size) ==
    SplitPackets(0, NumPackets(length, packet_size), 0, length, packet_size)

RECURSIVE SumPayload(_)
SumPayload(ds) == IF ds = <<>> THEN 0 ELSE Head(ds).payloadLen + SumPayload(Tail(ds))

\* lines 95, 108, 114: res after the loop is what the last callback returned.
LastRes(rets) == IF Len(rets) = 0 THEN 0 ELSE rets[Len(rets)]

NoTrace == [status |-> 0, length |-> 0, rets |-> <<>>, deliveries |-> <<>>,
            bytes_before |-> 0, result_before |-> 0]

\* -------------------------------------------------------------------- Init

\* line 170: state = { callback, userdata, ftdi->max_packet_size, 1 }, the rest zero.
InitState ==
    [packetsize |-> PacketSize, activity |-> 1, result |-> 0,
     progress |-> [first |-> [total_bytes |-> 0, time |-> 0],
                   prev |-> [total_bytes |-> 0, time |-> 0],
                   current |-> [total_bytes |-> 0, time |-> 0],
                   total_time |-> 0,
                   total_rate |-> [num |-> 0, den |-> 1],
                   current_rate |-> [num |-> 0, den |-> 1]]]

Init ==
    /\ num_transfers \in 1 .. MaxTransfers
    /\ packets_per_transfer \in 1 .. MaxPackets
    /\ pc = "check_type"
    /\ transfers = "uninit"
    /\ xfers = [i \in Slots |-> [obj |-> "null", buffer |-> "null", inflight |-> FALSE]]
    /\ xferIndex = 0
    /\ err = 0
    /\ xfer_err = 0
    /\ state = InitState
    /\ clock = StartTime
    /\ retval = 0
    /\ completions = 0
    /\ cb_xfer = -1
    /\ trace = NoTrace
    /\ stopped = {}
    /\ events = {}
    /\ path = "running"
    /\ reports = 0
    /\ rates_computed = FALSE
    /\ calls = <<>>
    /\ iterations = 0
    /\ wait_rcs = <<>>
    /\ wait_completions = 0
    /\ idle_waits = 0
    /\ adopted_rc = 0
    /\ cb_length = -1
    /\ cb_calls = 0

\* ----------------------------------------------------- ftdi_stream_read

\* The failure of a device call goes unnoticed.
FailedIgnored(rc) == rc < -1

\* lines 183, 190, 241: the device call failed if it returned less than 0.
Failed(rc) == rc < 0

\* What return does: the stack frame, and with it state, is gone.
Return(value, exit) ==
    /\ retval' = value
    /\ path' = exit
    /\ pc' = "done"

\* lines 175-180: only FT2232H and FT232H know the synchronous FIFO mode.
CheckType ==
    /\ pc = "check_type"
    /\ \E ftdi_type \in DeviceTypes :
          /\ calls' = Append(calls, [step |-> "capability",
                                     ok |-> ftdi_type \in SyncFifoTypes])
          /\ IF ftdi_type \notin SyncFifoTypes
             THEN Return(1, "unsupported")
             ELSE pc' = "reset_mode" /\ UNCHANGED <<retval, path>>
    /\ UNCHANGED <<num_transfers, packets_per_transfer, transfers, xfers, xferIndex,
                   err, xfer_err, state, clock, completions, cb_xfer, trace, stopped,
                   events, reports, rates_computed,
                   iterations, wait_rcs, wait_completions, idle_waits, adopted_rc,
                   cb_length, cb_calls>>

\* lines 183-187: ftdi_set_bitmode(ftdi, 0xff, BITMODE_RESET).
ResetMode ==
    /\ pc = "reset_mode"
    /\ \E rc \in DeviceCallResults :
          /\ calls' = Append(calls, [step |-> "reset_mode", ok |-> rc >= 0])
          /\ IF Failed(rc)
             THEN Return(1, "reset_mode")
             ELSE pc' = "flush" /\ UNCHANGED <<retval, path>>
    /\ UNCHANGED <<num_transfers, packets_per_transfer, transfers, xfers, xferIndex,
                   err, xfer_err, state, clock, completions, cb_xfer, trace, stopped,
                   events, reports, rates_computed,
                   iterations, wait_rcs, wait_completions, idle_waits, adopted_rc,
                   cb_length, cb_calls>>

\* lines 190-194: ftdi_tcioflush(ftdi).
Flush ==
    /\ pc = "flush"
    /\ \E rc \in DeviceCallResults :
          /\ calls' = Append(calls, [step |-> "flush", ok |-> rc >= 0])
          /\ IF Failed(rc)
             THEN Return(1, "flush")
             ELSE pc' = "calloc" /\ UNCHANGED <<retval, path>>
    /\ UNCHANGED <<num_transfers, packets_per_transfer, transfers, xfers, xferIndex,
                   err, xfer_err, state, clock, completions, cb_xfer, trace, stopped,
                   events, reports, rates_computed,
                   iterations, wait_rcs, wait_completions, idle_waits, adopted_rc,
                   cb_length, cb_calls>>

\* lines 200-207: transfers = calloc(num_transfers, sizeof *transfers).
AllocTransfers ==
    /\ pc = "calloc"
    /\ \E ok \in BOOLEAN :
          /\ calls' = Append(calls, [step |-> "pool_setup", ok |-> ok])
          /\ IF ok
             THEN /\ transfers' = "alloc"
                  /\ xferIndex' = 0
                  /\ pc' = "setup"
                  /\ UNCHANGED <<err, path>>
             ELSE /\ transfers' = "null"
                  /\ err' = LIBUSB_ERROR_NO_MEM
                  /\ path' = "calloc"
                  /\ pc' = "cleanup"
                  /\ UNCHANGED xferIndex
    /\ UNCHANGED <<num_transfers, packets_per_transfer, xfers, xfer_err, state, clock,
                   retval, completions, cb_xfer, trace, stopped, events, reports,
                   rates_computed, iterations, wait_rcs, wait_completions,
                   idle_waits, adopted_rc, cb_length, cb_calls>>

\* The set-up loop stops one slot early.
QueuedAllButOne(index, n) == index + 1 >= n

\* line 207: the set-up loop is left when xferIndex < num_transfers fails.
QueuedAll(index, n) == ~(index < n)

\* lines 207-234: one iteration of the set-up loop, for slot xferIndex.
\* alloc_ok: libusb_alloc_transfer; buffer_ok: malloc(bufferSize); rc: the
\* first libusb_submit_transfer.
SetupTransfer ==
    /\ pc = "setup"
    /\ xferIndex < num_transfers
    /\ \E alloc_ok \in BOOLEAN, buffer_ok \in BOOLEAN, rc \in SubmitResults :
          IF ~alloc_ok
          THEN /\ xfers' = [xfers EXCEPT ![xferIndex].obj = "null"]
               /\ err' = LIBUSB_ERROR_NO_MEM
               /\ path' = "alloc_transfer"
               /\ pc' = "cleanup"
               /\ UNCHANGED xferIndex
          ELSE IF ~buffer_ok
          THEN /\ xfers' = [xfers EXCEPT ![xferIndex].obj = "alloc"]
               /\ err' = LIBUSB_ERROR_NO_MEM
               /\ path' = "alloc_buffer"
               /\ pc' = "cleanup"
               /\ UNCHANGED xferIndex
          ELSE IF rc # 0
          THEN /\ xfers' = [xfers EXCEPT ![xferIndex] =
                              [obj |-> "alloc", buffer |-> "alloc", inflight |-> FALSE]]
               /\ err' = rc
               /\ path' = "submit"
               /\ pc' = "cleanup"
               /\ UNCHANGED xferIndex
          ELSE /\ xfers' = [xfers EXCEPT ![xferIndex] =
                              [obj |-> "alloc", buffer |-> "alloc", inflight |-> TRUE]]
               /\ err' = rc
               /\ xferIndex' = xferIndex + 1
               /\ pc' = IF QueuedAll(xferIndex + 1, num_transfers)
                        THEN "syncff" ELSE "setup"
               /\ UNCHANGED path
    /\ UNCHANGED <<num_transfers, packets_per_transfer, transfers, xfer_err, state,
                   clock, retval, completions, cb_xfer, trace, stopped, events, reports,
                   rates_computed, calls, iterations, wait_rcs, wait_completions,
                   idle_waits, adopted_rc, cb_length, cb_calls>>

\* lines 241-252: ftdi_set_bitmode(ftdi, 0xff, BITMODE_SYNCFF); on success the
\* session's start time is taken.
SetSyncFifoMode ==
    /\ pc = "syncff"
    /\ \E rc \in DeviceCallResults :
          /\ calls' = Append(calls, [step |-> "syncff", ok |-> rc >= 0])
          /\ IF Failed(rc)
             THEN /\ path' = "syncff"
                  /\ pc' = "cleanup"
                  /\ UNCHANGED <<state, events, iterations>>
             ELSE /\ state' = [state EXCEPT !.progress.first.time = clock]
                  /\ events' = events \cup {"syncff"}
                  /\ pc' = "handle_events"
                  /\ iterations' = 1
                  /\ UNCHANGED path
    /\ UNCHANGED <<num_transfers, packets_per_transfer, transfers, xfers, xferIndex,
                   err, xfer_err, clock, retval, completions, cb_xfer, trace, stopped,
                   reports, rates_computed, wait_rcs, wait_completions, idle_waits,
                   adopted_rc, cb_length, cb_calls>>

\* -------------------------------------------------- ftdi_stream_read_cb

\* The handler forgets to count the completion.
NotCounted(s) == s

\* line 88: state->activity++.
Counted(s) == [s EXCEPT !.activity = @ + 1]

\* lines 82-130: libusb calls the handler for in-flight transfer i, which has
\* completed with the given status and actual_length.  rets are the consumer's
\* answers to the data deliveries, in order; rc is what libusb_submit_transfer
\* answers if the handler resubmits.
ftdi_stream_read_cb(i, status, length, rets, rc) ==
    LET packet_size == state.packetsize
        deliveries == Deliveries(length, packet_size)
        res == LastRes(rets)
        counted == Counted(state)
        delivered == [counted EXCEPT !.progress.current.total_bytes =
                                         @ + SumPayload(deliveries)]
    IN  /\ completions' = completions + 1
        /\ wait_completions' = wait_completions + 1
        /\ cb_xfer' = i
        /\ cb_length' = IF status = LIBUSB_TRANSFER_COMPLETED THEN length ELSE -1
        /\ cb_calls' = Len(rets)
        /\ IF status = LIBUSB_TRANSFER_COMPLETED
           THEN /\ stopped' = IF \E k \in 1 .. Len(rets) : rets[k] # 0
                              THEN stopped \cup {i} ELSE stopped
                /\ IF res # 0
                   THEN /\ xfers' = [xfers EXCEPT ![i] =
                                       [obj |-> Free(@.obj), buffer |-> Free(@.buffer),
                                        inflight |-> FALSE]]
                        /\ state' = delivered
                        /\ events' = events \cup {"consumer_stop"}
                   ELSE /\ xfers' = [xfers EXCEPT ![i].inflight = (rc = 0)]
                        /\ state' = [delivered EXCEPT !.result = rc]
                        /\ events' = IF rc # 0 THEN events \cup {"submit_error"}
                                     ELSE events
           ELSE /\ xfers' = [xfers EXCEPT ![i].inflight = FALSE]
                /\ state' = [counted EXCEPT !.result = LIBUSB_ERROR_IO]
                /\ events' = events \cup {"transfer_error"}
                /\ UNCHANGED stopped

\* actual_length of a completed transfer: anything up to the buffer size.
AllLengths == 0 .. BufferSize(packets_per_transfer, state.packetsize)

\* The lengths the whole-session specification draws from: nothing received, one
\* packet shorter than its header, and a full buffer.
SessionLengths == {0, 1, BufferSize(packets_per_transfer, state.packetsize)}

\* What the transport can hand the handler for a completion, and what the
\* consumer and the resubmission can answer.
CompletionInputs(status, lengths) ==
    {in \in [length : IF status = LIBUSB_TRANSFER_COMPLETED THEN lengths ELSE {0},
             rets : UNION {[1 .. n -> ConsumerReturns] : n \in 0 .. packets_per_transfer},
             rc : SubmitResults] :
        /\ Len(in.rets) = (IF status = LIBUSB_TRANSFER_COMPLETED
                           THEN NumPackets(in.length, state.packetsize) ELSE 0)
        /\ (status # LIBUSB_TRANSFER_COMPLETED \/ LastRes(in.rets) # 0)
              => in.rc = LIBUSB_SUCCESS}

\* A transfer completes while the driver is inside libusb_handle_events_timeout.
Complete ==
    /\ pc \in {"handle_events", "handle_events_retry"}
    /\ completions < MaxCompletions
    /\ \E i \in Slots, status \in TransferStatuses :
          /\ xfers[i].inflight
          /\ \E in \in CompletionInputs(status, SessionLengths) :
                ftdi_stream_read_cb(i, status, in.length, in.rets, in.rc)
    /\ UNCHANGED <<num_transfers, packets_per_transfer, pc, transfers, xferIndex, err,
                   xfer_err, clock, retval, trace, path, reports, rates_computed,
                   calls, iterations, wait_rcs, idle_waits, adopted_rc>>

\* The same, for any actual_length, keeping the handler's deliveries in trace.
CompleteTraced ==
    /\ pc \in {"handle_events", "handle_events_retry"}
    /\ completions < MaxCompletions
    /\ \E i \in Slots, status \in TransferStatuses :
          /\ xfers[i].inflight
          /\ \E in \in CompletionInputs(status, AllLengths) :
                /\ ftdi_stream_read_cb(i, status, in.length, in.rets, in.rc)
                /\ trace' = [status |-> status, length |-> in.length, rets |-> in.rets,
                             deliveries |->
                                 IF status = LIBUSB_TRANSFER_COMPLETED
                                 THEN Deliveries(in.length, state.packetsize)
                                 ELSE <<>>,
                             bytes_before |-> state.progress.current.total_bytes,
                             result_before |-> state.result]
    /\ UNCHANGED <<num_transfers, packets_per_transfer, pc, transfers, xferIndex, err,
                   xfer_err, clock, retval, path, reports, rates_computed, calls,
                   iterations, wait_rcs, idle_waits, adopted_rc>>

\* ------------------------------------------------------- the driver loop

\* How long a dispatch wait can last: it is bounded by ftdi->usb_read_timeout.
WaitSeconds == 0 .. (StartTime + MaxElapsed - clock)

\* line 263: libusb_handle_events_timeout returns rc after d seconds.
HandleEvents ==
    /\ pc = "handle_events"
    /\ \E rc \in HandleEventsResults, d \in WaitSeconds :
          /\ xfer_err' = rc
          /\ wait_rcs' = Append(wait_rcs, rc)
          /\ clock' = clock + d
          /\ pc' = IF rc = LIBUSB_ERROR_INTERRUPTED
                   THEN "handle_events_retry" ELSE "check_activity"
          /\ events' = IF rc \notin {LIBUSB_SUCCESS, LIBUSB_ERROR_INTERRUPTED}
                       THEN events \cup {"dispatch_error"} ELSE events
    /\ UNCHANGED <<num_transfers, packets_per_transfer, transfers, xfers, xferIndex,
                   err, state, retval, completions, cb_xfer, trace, stopped, path,
                   reports, rates_computed, calls, iterations, wait_completions,
                   idle_waits, adopted_rc, cb_length, cb_calls>>

\* lines 264-266: the wait is restarted once after an interruption.
HandleEventsRetry ==
    /\ pc = "handle_events_retry"
    /\ \E rc \in HandleEventsResults, d \in WaitSeconds :
          /\ xfer_err' = rc
          /\ wait_rcs' = Append(wait_rcs, rc)
          /\ clock' = clock + d
          /\ events' = IF rc # LIBUSB_SUCCESS
                       THEN events \cup {"dispatch_error"} ELSE events
    /\ pc' = "check_activity"
    /\ UNCHANGED <<num_transfers, packets_per_transfer, transfers, xfers, xferIndex,
                   err, state, retval, completions, cb_xfer, trace, stopped, path,
                   reports, rates_computed, calls, iterations, wait_completions,
                   idle_waits, adopted_rc, cb_length, cb_calls>>

\* The test never succeeds: no stall is ever declared.
NoActivityIgnored(s) == s.activity < 0

\* The test also succeeds on the initial count of 1.
NoActivityAtOne(s) == s.activity <= 1

\* line 271: state.activity == 0.
NoActivity(s) == s.activity = 0

\* lines 267-274: adopt the dispatch error, then test and reset the activity.
CheckActivity ==
    /\ pc = "check_activity"
    /\ LET adopted == IF state.result = 0
                      THEN [state EXCEPT !.result = xfer_err] ELSE state
       IN  IF NoActivity(adopted)
           THEN /\ state' = [adopted EXCEPT !.result = 1]
                /\ events' = events \cup {"stall"}
           ELSE /\ state' = [adopted EXCEPT !.activity = 0]
                /\ UNCHANGED events
    /\ pc' = "progress"
    /\ adopted_rc' = IF state.result = 0 THEN xfer_err ELSE adopted_rc
    /\ idle_waits' = IF wait_completions # 0 THEN 0
                     ELSE IF idle_waits < MaxIterations THEN idle_waits + 1
                     ELSE idle_waits
    /\ wait_rcs' = <<>>
    /\ wait_completions' = 0
    /\ cb_xfer' = -1
    /\ cb_length' = -1
    /\ cb_calls' = 0
    /\ UNCHANGED <<num_transfers, packets_per_transfer, transfers, xfers, xferIndex,
                   err, xfer_err, clock, retval, completions, trace, stopped, path,
                   reports, rates_computed, calls, iterations>>

\* lines 284-298: the rates, computed when prev.total_bytes is nonzero.
Rates(progress) ==
    IF ~U64IsZero(progress.prev.total_bytes)
    THEN LET currentTime == timespec_diff(progress.current.time, progress.prev.time)
         IN  [progress EXCEPT
                !.total_rate = [num |-> progress.current.total_bytes,
                                den |-> progress.total_time],
                !.current_rate = [num |-> progress.current.total_bytes
                                          - progress.prev.total_bytes,
                                  den |-> currentTime]]
    ELSE progress

\* lines 276-304: the periodic progress report, then the loop test.
UpdateProgress ==
    /\ pc = "progress"
    /\ LET now == clock
           progress == state.progress
       IN  IF timespec_diff(now, progress.current.time) >= ProgressInterval
           THEN LET timed == [progress EXCEPT
                                !.current.time = now,
                                !.total_time = timespec_diff(now, progress.first.time)]
                    rated == Rates(timed)
                IN  /\ state' = [state EXCEPT
                                   !.progress = [rated EXCEPT !.prev = rated.current]]
                    /\ reports' = reports + 1
                    /\ rates_computed' = ~U64IsZero(progress.prev.total_bytes)
           ELSE UNCHANGED <<state, reports, rates_computed>>
    /\ pc' = IF state.result = 0 THEN "handle_events" ELSE "cleanup"
    /\ path' = IF state.result = 0 THEN path ELSE "loop"
    /\ xfer_err' = 0
    /\ iterations' = IF state.result = 0 /\ iterations < MaxIterations
                     THEN iterations + 1 ELSE iterations
    /\ UNCHANGED <<num_transfers, packets_per_transfer, transfers, xfers, xferIndex,
                   err, clock, retval, completions, cb_xfer, trace, stopped, events,
                   calls, wait_rcs, wait_completions, idle_waits, adopted_rc, cb_length,
                   cb_calls>>

\* lines 310-317: free the pointer array and return.
Cleanup ==
    /\ pc = "cleanup"
    /\ transfers' = IF transfers = "null" THEN transfers ELSE Free(transfers)
    /\ retval' = IF err # 0 THEN err ELSE state.result
    /\ pc' = "done"
    /\ UNCHANGED <<num_transfers, packets_per_transfer, xfers, xferIndex, err, xfer_err,
                   state, clock, completions, cb_xfer, trace, stopped, events, path,
                   reports, rates_computed, calls, iterations, wait_rcs,
                   wait_completions, idle_waits, adopted_rc, cb_length, cb_calls>>

Next ==
    \/ CheckType
    \/ ResetMode
    \/ Flush
    \/ AllocTransfers
    \/ SetupTransfer
    \/ SetSyncFifoMode
    \/ Complete
    \/ HandleEvents
    \/ HandleEventsRetry
    \/ CheckActivity
    \/ UpdateProgress
    \/ Cleanup

Spec == Init /\ [][Next]_vars

\* In-flight transfer i completes successfully with at least one packet and the
\* consumer answers nonzero to every delivery; the transport delivers any
\* number of these.
CompleteStop(i) ==
    /\ pc \in {"handle_events", "handle_events_retry"}
    /\ i \in Slots
    /\ xfers[i].inflight
    /\ \E length \in SessionLengths \ {0} :
          ftdi_stream_read_cb(i, LIBUSB_TRANSFER_COMPLETED, length,
                              [k \in 1 .. NumPackets(length, state.packetsize) |-> 1],
                              LIBUSB_SUCCESS)
    /\ UNCHANGED <<num_transfers, packets_per_transfer, pc, transfers, xferIndex, err,
                   xfer_err, clock, retval, trace, path, reports, rates_computed,
                   calls, iterations, wait_rcs, idle_waits, adopted_rc>>

\* The steps of the thread that called ftdi_stream_read.
Driver ==
    \/ CheckType
    \/ ResetMode
    \/ Flush
    \/ AllocTransfers
    \/ SetupTransfer
    \/ SetSyncFifoMode
    \/ HandleEvents
    \/ HandleEventsRetry
    \/ CheckActivity
    \/ UpdateProgress
    \/ Cleanup

NextFair ==
    \/ Driver
    \/ Complete
    \/ \E i \in Slots : CompleteStop(i)

\* The calling thread keeps running and every dispatch wait returns (it is
\* bounded by the read timeout); a transfer that is in flight during dispatch
\* waits again and again completes in one of them, the consumer stopping it.
SpecFair ==
    /\ Init
    /\ [][NextFair]_vars
    /\ WF_vars(Driver)
    /\ \A i \in 0 .. (MaxTransfers - 1) : SF_vars(CompleteStop(i))

\* The session up to and including its first dispatch wait, with the handler's
\* deliveries kept in trace and every actual_length drawn.
NextCb ==
    \/ CheckType
    \/ ResetMode
    \/ Flush
    \/ AllocTransfers
    \/ SetupTransfer
    \/ SetSyncFifoMode
    \/ CompleteTraced

SpecCb == Init /\ [][NextCb]_vars

TypeOK ==
    /\ pc \in {"check_type", "reset_mode", "flush", "calloc", "setup", "syncff",
               "handle_events", "handle_events_retry", "check_activity", "progress",
               "cleanup", "done"}
    /\ transfers \in {"uninit", "null", "alloc", "freed"}
    /\ \A i \in Slots : /\ xfers[i].obj \in {"null", "alloc", "freed"}
                        /\ xfers[i].buffer \in {"null", "alloc", "freed"}
                        /\ xfers[i].inflight \in BOOLEAN
    /\ xferIndex \in 0 .. num_transfers
    /\ state.activity >= 0
    /\ Len(calls) <= 5
    /\ iterations \in 0 .. MaxIterations
    /\ Len(wait_rcs) <= 2
    /\ wait_completions \in 0 .. completions
    /\ idle_waits \in 0 .. MaxIterations
    /\ adopted_rc \in HandleEventsResults
    /\ cb_length \in {-1} \cup AllLengths
    /\ cb_calls \in 0 .. packets_per_transfer

\* ------------------------------------------------------------ properties

Resubmitted(x) == x.inflight /\ x.obj = "alloc" /\ x.buffer = "alloc"
Released(x) == ~x.inflight /\ x.obj = "freed" /\ x.buffer = "freed"
\* Nothing of the slot is left allocated or in flight, and nothing was freed twice.
Settled(x) == ~x.inflight /\ x.obj \in {"null", "freed"} /\ x.buffer \in {"null", "freed"}

SetupFailures == {"unsupported", "reset_mode", "flush", "calloc", "alloc_transfer",
                  "alloc_buffer", "submit", "syncff"}
PoolFailures == {"alloc_transfer", "alloc_buffer", "submit"}
Errors == {"transfer_error", "submit_error", "dispatch_error"}

Ceil(L, P) == CHOOSE n \in 0 .. L : n * P >= L /\ (n - 1) * P < L
Min(a, b) == IF a < b THEN a ELSE b

\* C1: every invocation of the completion handler leaves its transfer either
\* resubmitted (in flight again, with its buffer) or released (buffer and
\* transfer object freed): exactly one of the two, never both, never neither.
C1_ResubmitOrRelease ==
    cb_xfer # -1 => (Resubmitted(xfers[cb_xfer]) # Released(xfers[cb_xfer]))

\* C2: when ftdi_stream_read has returned, no transfer of the session is still
\* allocated or in flight: each buffer and transfer object was released once.
C2_NothingOutstandingAtReturn ==
    pc = "done" => \A i \in Slots : Settled(xfers[i])

\* C3: when pool set-up failed at slot k (allocation of the transfer, of its
\* buffer, or the first submission), the k-1 slots submitted before it and the
\* partly built slot k have all been released when ftdi_stream_read returns.
C3_PartialPoolReleased ==
    (pc = "done" /\ path \in PoolFailures)
        => \A i \in Slots : i <= xferIndex => Settled(xfers[i])

\* C4: a session that ends because of a set-up failure, an I/O failure or a
\* stall returns a nonzero status.
C4_FailureReturnsNonzero ==
    (pc = "done" /\ (path \in SetupFailures \/ events \cap (Errors \cup {"stall"}) # {}))
        => retval # 0

\* C5: a session that ends after the consumer requested stop, all its transfers
\* having been released by the handler and no transfer, submission or dispatch
\* error having occurred, returns 0.
C5_ConsumerStopReturnsZero ==
    (/\ pc = "done"
     /\ "consumer_stop" \in events
     /\ \A i \in Slots : Released(xfers[i])
     /\ events \cap Errors = {})
        => retval = 0

\* C6: the session result is sticky: once state.result is nonzero, no later step
\* of the handler or of the driver loop changes it.
C6_ResultSticky ==
    [][(pc # "done" /\ state.result # 0) => state'.result = state.result]_vars

\* C7: a transfer for which the consumer answered nonzero to any data delivery
\* has been released and is not in flight again.
C7_StopNeverResubmitted ==
    \A i \in stopped : Released(xfers[i])

\* C8: a successfully completed transfer of actual length L is split into
\* ceil(L/P) deliveries, the k-th starting at byte (k-1)*P, covering
\* min(remaining, P) bytes and handing the consumer the bytes after the 2-byte
\* header, so that the payload lengths sum to L - 2*ceil(L/P), which is what the
\* handler adds to current.total_bytes.
C8_PacketSplitting ==
    (completions > 0 /\ trace.status = LIBUSB_TRANSFER_COMPLETED) =>
        LET L == trace.length
            P == state.packetsize
            ds == trace.deliveries
            n == Ceil(L, P)
        IN  /\ L \in 0 .. BufferSize(packets_per_transfer, P)
            /\ Len(ds) = n
            /\ Len(trace.rets) = n
            /\ \A k \in 1 .. Len(ds) :
                  /\ ds[k].ptr = (k - 1) * P
                  /\ ds[k].packetLen = Min(L - (k - 1) * P, P)
                  /\ ds[k].data = ds[k].ptr + 2
                  /\ ds[k].payloadLen = ds[k].packetLen - 2
            /\ SumPayload(ds) = L - 2 * n
            /\ state.progress.current.total_bytes = trace.bytes_before + L - 2 * n

\* C8 happens: a completed transfer with full packets and a short final packet.
C8_Witness ==
    /\ completions > 0
    /\ trace.status = LIBUSB_TRANSFER_COMPLETED
    /\ trace.length > state.packetsize
    /\ trace.length % state.packetsize # 0

\* C9: current.total_bytes never decreases, and
\* current.total_bytes >= prev.total_bytes >= first.total_bytes = 0 always.
C9_BytesMonotonic ==
    [][/\ U64Leq(state.progress.current.total_bytes, state'.progress.current.total_bytes)
       /\ U64Leq(state'.progress.prev.total_bytes, state'.progress.current.total_bytes)
       /\ U64Leq(state'.progress.first.total_bytes, state'.progress.prev.total_bytes)
       /\ state'.progress.first.total_bytes = 0]_vars

\* C10: the rates are not computed for the first progress report of a session
\* and are computed for the second and every later one.
C10_RatesFromSecondReport ==
    /\ reports = 1 => ~rates_computed
    /\ reports >= 2 => rates_computed

\* C11: when two loop iterations in a row have each ended their dispatch wait
\* with no completion handled, state.result is the stall status 1 at the end of
\* the second, no further dispatch wait is begun, and ftdi_stream_read returns
\* a nonzero status.
C11_StallAfterTwoIdleWaits ==
    idle_waits >= 2 =>
        /\ state.result = 1
        /\ pc \in {"progress", "cleanup", "done"}
        /\ pc = "done" => retval # 0

\* C11 happens: a session returned after two idle iterations in a row.
C11_Witness ==
    pc = "done" /\ idle_waits = 2 /\ "stall" \in events

\* C12: the handler of a transfer that completed with a non-success status
\* leaves state.result = LIBUSB_ERROR_IO, and the loop begins no further
\* iteration (no new dispatch wait) once such a completion has been handled,
\* whatever else completed in the same wait.
C12_TransferErrorEndsLoop ==
    [][/\ (completions' = completions + 1 /\ cb_length' = -1)
            => state'.result = LIBUSB_ERROR_IO
       /\ ("transfer_error" \in events /\ pc = "progress")
            => pc' # "handle_events"]_vars

\* The transfers that are queued: allocated, with a buffer, and submitted.
Queued == {i \in Slots : Resubmitted(xfers[i])}

\* C13: ftdi_set_bitmode(BITMODE_SYNCFF) is called only when all num_transfers
\* transfers are allocated, have a buffer and are queued, and it is not called
\* in a session whose pool set-up failed.
C13_SyncFifoAfterFullPool ==
    /\ pc = "syncff" => (xferIndex = num_transfers /\ Queued = Slots)
    /\ (path \in PoolFailures \cup {"calloc"}) =>
           (pc # "syncff" /\ \A k \in 1 .. Len(calls) : calls[k].step # "syncff")
    /\ (\E k \in 1 .. Len(calls) : calls[k].step = "syncff") =>
           (xferIndex = num_transfers /\ path \notin PoolFailures \cup {"calloc"})

\* C13 happens: the mode was switched with a pool of more than one transfer.
C13_Witness ==
    /\ "syncff" \in events
    /\ calls[Len(calls)].step = "syncff"
    /\ num_transfers > 1
    /\ pc = "handle_events"
    /\ Queued = Slots

LoopPositions == {"handle_events", "handle_events_retry", "check_activity", "progress"}

\* The session is on its way out: a result is set or the consumer asked to stop.
Terminating == state.result # 0 \/ "consumer_stop" \in events

\* C14: never more than num_transfers transfers are queued, and while the
\* driver loop runs with state.result unset and no stop requested, exactly
\* num_transfers are.
C14_PoolFullWhileRunning ==
    /\ Cardinality(Queued) <= num_transfers
    /\ (pc \in LoopPositions /\ ~Terminating) => Cardinality(Queued) = num_transfers

StepOrder == <<"capability", "reset_mode", "flush", "pool_setup", "syncff">>

\* C15: the steps before the loop are taken in the order capability check,
\* mode reset, flush, pool set-up, and none is taken after one that failed;
\* when the capability check, the mode reset or the flush failed,
\* ftdi_stream_read has returned a nonzero status with nothing allocated, nothing
\* submitted and the handler and the consumer never invoked.
C15_FailFast ==
    /\ Len(calls) <= Len(StepOrder)
    /\ \A k \in 1 .. Len(calls) :
          /\ calls[k].step = StepOrder[k]
          /\ k < Len(calls) => calls[k].ok
    /\ \A k \in 1 .. Len(calls) :
          (k <= 3 /\ ~calls[k].ok) =>
              /\ pc = "done"
              /\ retval # 0
              /\ transfers = "uninit"
              /\ \A i \in Slots : xfers[i] = [obj |-> "null", buffer |-> "null",
                                                inflight |-> FALSE]
              /\ completions = 0
              /\ stopped = {}

\* C15 happens: the flush failed after a good capability check and mode reset.
C15_Witness ==
    /\ pc = "done"
    /\ Len(calls) = 3
    /\ ~calls[3].ok

\* ftdi_stream_read returns in every fair session.
Terminates == <>(pc = "done")

\* C16: a session that left the loop after the consumer asked to stop, in which
\* every completion was a successful one with data that the consumer answered
\* nonzero to and no transfer, submission or dispatch error occurred, has
\* returned with every transfer completed and released.
C16_DrainedAtReturn ==
    (/\ pc = "done"
     /\ path = "loop"
     /\ "consumer_stop" \in events
     /\ events \cap Errors = {}
     /\ completions = Cardinality(stopped))
        => \A i \in Slots : Released(xfers[i])

\* C17: every invocation of the handler adds exactly one to state.activity;
\* from the second loop iteration on, the value the loop tests equals the
\* number of completions handled during that iteration's dispatch wait; and
\* the test leaves state.activity at 0 whenever it was nonzero.
C17_ActivityCountsCompletions ==
    [][/\ completions' = completions + 1 => state'.activity = state.activity + 1
       /\ (pc' = "check_activity" /\ iterations' >= 2)
            => state'.activity = wait_completions'
       /\ (pc = "check_activity" /\ pc' = "progress" /\ state.activity # 0)
            => state'.activity = 0]_vars

\* C17 happens: in a later iteration the loop tests a count of two completions,
\* one of them a failed transfer.
C17_Witness ==
    /\ pc = "check_activity"
    /\ iterations >= 2
    /\ wait_completions = 2
    /\ state.activity = 2
    /\ "transfer_error" \in events

\* C18: in each iteration the dispatch wait is called at most twice, the second
\* time only after the first returned LIBUSB_ERROR_INTERRUPTED; when
\* state.result is unset after the wait and the last wait returned a nonzero
\* code, that code is state.result at the end of the iteration, the loop exits
\* after this iteration, and ftdi_stream_read returns that code.
C18_DispatchErrorAdopted ==
    [][/\ pc' = "check_activity" =>
            /\ Len(wait_rcs') \in {1, 2}
            /\ Len(wait_rcs') = 2 <=> wait_rcs'[1] = LIBUSB_ERROR_INTERRUPTED
            /\ xfer_err' = wait_rcs'[Len(wait_rcs')]
       /\ (pc = "check_activity" /\ pc' = "progress" /\ state.result = 0 /\ xfer_err # 0)
            => state'.result = xfer_err
       /\ (pc = "progress" /\ adopted_rc # 0) => pc' = "cleanup"
       /\ (pc' = "done" /\ adopted_rc' # 0) => retval' = adopted_rc']_vars

\* C19: no stall is declared in the first loop iteration; a session that left
\* the loop with no completion handled and no dispatch error reported made
\* exactly two loop iterations and returned 1.
C19_StallNotInFirstIteration ==
    /\ "stall" \in events => iterations >= 2
    /\ (pc = "done" /\ path = "loop" /\ completions = 0 /\ "dispatch_error" \notin events)
           => (iterations = 2 /\ retval = 1 /\ "stall" \in events)

\* C19 happens: a session without completions and dispatch errors returned.
C19_Witness ==
    /\ pc = "done"
    /\ path = "loop"
    /\ completions = 0
    /\ "dispatch_error" \notin events
    /\ iterations = 2

\* What every handler step for a successful completion of actual length 0
\* does: no data delivery, current.total_bytes unchanged, one more activity, no
\* stop by the consumer, and the transfer kept and handed to
\* libusb_submit_transfer.
EmptyCompletionKept ==
    (completions' = completions + 1 /\ cb_length' = 0) =>
        /\ cb_calls' = 0
        /\ state'.progress.current.total_bytes = state.progress.current.total_bytes
        /\ state'.activity = state.activity + 1
        /\ stopped' = stopped
        /\ "consumer_stop" \in events' => "consumer_stop" \in events
        /\ xfers'[cb_xfer'].obj = "alloc"
        /\ xfers'[cb_xfer'].buffer = "alloc"

\* A stall is declared only in an iteration whose wait handled no completion.
StallOnlyWhenIdle ==
    ("stall" \notin events /\ "stall" \in events') => wait_completions = 0

====
